---- MODULE Spec2Model ----
(***************************************************************************)
(* State-machine model of the audio transcription service:                 *)
(*   src/app.py                     (the /transcribe and webhook routes)   *)
(*   src/Heroku_deployment/app.py   (the Heroku variant of /transcribe)    *)
(*                                                                         *)
(* Strings whose characters matter (file names, base64 payloads, cell      *)
(* texts) are sequences of one-character strings.  An optional value is a  *)
(* sequence of length at most one (Python's None is the empty one), and a  *)
(* missing row index is 0 (gspread rows are 1-indexed).                    *)
(***************************************************************************)
EXTENDS Integers, Sequences, FiniteSets, TLC

VARIABLES
    variant,                  \* "app" (src/app.py) or "heroku" (src/Heroku_deployment/app.py)
    envSheetId,               \* os.getenv('GOOGLE_SHEET_ID'): "None" when the variable is unset
    envVideoaskId,            \* os.getenv('VIDEOASK_GOOGLE_SHEET_ID'): "None" when unset
    whisper_model_instance,   \* global: "None" or "model"
    gspread_client_instance,  \* global: "None" or "client"
    sheet,                    \* worksheet GSHEET_WORKSHEET_NAME of the spreadsheet
    vaSheet,                  \* worksheet 'VideoAsk Responses' of the spreadsheet
    clock,                    \* datetime.now(), in seconds
    uploads,                  \* temporary files present in UPLOAD_FOLDER
    served,                   \* number of requests received so far (the source of uuid4)
    req,                      \* per worker: position and locals of the request being handled
    lastWrite,                \* history: per file name, the last successful upsert
    writeFailed               \* history: some finished write_to_google_sheet call failed

vars == <<variant, envSheetId, envVideoaskId, whisper_model_instance,
          gspread_client_instance, sheet, vaSheet, clock, uploads, served, req,
          lastWrite, writeFailed>>

config == <<variant, envSheetId, envVideoaskId>>

(***************************************************************************)
(* Bounds of the model.                                                    *)
(***************************************************************************)
MaxRequests == 2
MaxClock == 2

Workers == {"w1", "w2"}
SeqWorkers == {"w1"}

(***************************************************************************)
(* Characters and strings.                                                 *)
(***************************************************************************)
Lower == {"a", "m", "u", "d", "i", "o", "l", "e", "n", "h", "k", "x"}
Upper == {"A", "F", "H", "O", "X"}
Alnum == Lower \cup Upper

\* str.isalnum() or c in ['.', '_', '-']
SafeChar(c) == c \in Alnum \/ c \in {".", "_", "-"}

RECURSIVE Sanitize(_)
\* keeps the characters c of the name with c.isalnum() or c in ['.', '_', '-']
Sanitize(s) ==
    IF s = <<>> THEN <<>>
    ELSE (IF SafeChar(Head(s)) THEN <<Head(s)>> ELSE <<>>) \o Sanitize(Tail(s))

RECURSIVE LStrip(_)
LStrip(s) == IF s # <<>> /\ Head(s) = " " THEN LStrip(Tail(s)) ELSE s

RECURSIVE RStrip(_)
RStrip(s) ==
    IF s # <<>> /\ s[Len(s)] = " " THEN RStrip(SubSeq(s, 1, Len(s) - 1)) ELSE s

\* str.strip()
Strip(s) == RStrip(LStrip(s))

\* largest index of c in s, 0 when c does not occur (str.rfind + 1)
RFind(s, c) ==
    LET I == {i \in 1..Len(s) : s[i] = c}
    IN  IF I = {} THEN 0 ELSE CHOOSE i \in I : \A j \in I : j <= i

\* os.path.splitext: the extension starts at the last '.' of the last path
\* component, unless that component has only dots before it
SplitExt(s) ==
    LET sep == RFind(s, "/")
        dot == RFind(s, ".")
        split == dot > sep /\ \E k \in (sep + 1)..(dot - 1) : s[k] # "."
    IN  IF split THEN <<SubSeq(s, 1, dot - 1), SubSeq(s, dot, Len(s))>>
        ELSE <<s, <<>>>>

Some(x) == <<x>>
None == <<>>

NoneId == "None"
\* Python truthiness of an optional string: None and "" are falsy
Truthy(s) == s \notin {NoneId, ""}

(***************************************************************************)
(* Configuration (module level of the two app variants).                   *)
(***************************************************************************)
\* the default of os.getenv('GOOGLE_SHEET_ID', ...) in the Heroku variant
HerokuDefaultSheetId == "xxxxxxxxxxxxxxxxx"

\* GOOGLE_SHEET_ID = os.getenv('GOOGLE_SHEET_ID' [, default])
GOOGLE_SHEET_ID ==
    IF envSheetId # NoneId THEN envSheetId
    ELSE IF variant = "heroku" THEN HerokuDefaultSheetId ELSE NoneId

\* os.getenv('VIDEOASK_GOOGLE_SHEET_ID', GOOGLE_SHEET_ID)
videoask_sheet_id ==
    IF envVideoaskId # NoneId THEN envVideoaskId ELSE GOOGLE_SHEET_ID

\* the spreadsheets that exist in the store
Spreadsheets == {"sheet1"}

(***************************************************************************)
(* base64.b64decode(s) with its default validate=False: characters outside *)
(* the base64 alphabet are discarded, '=' ends the data once it completes  *)
(* a quad, and leftover data characters are a padding error.  A string     *)
(* with a non-ASCII character is refused with ValueError before decoding.  *)
(***************************************************************************)
B64Alphabet == {"A", "Q", "g"}
NonAscii == {"~e"}

RECURSIVE B64Scan(_, _, _)
B64Scan(s, quad, pads) ==
    IF s = <<>> THEN quad = 0
    ELSE IF Head(s) = "="
         THEN IF quad >= 2 /\ quad + pads + 1 >= 4 THEN TRUE
              ELSE B64Scan(Tail(s), quad, IF quad >= 2 THEN pads + 1 ELSE pads)
    ELSE IF Head(s) \notin B64Alphabet THEN B64Scan(Tail(s), quad, pads)
    ELSE B64Scan(Tail(s), (quad + 1) % 4, 0)

b64decode(s) ==
    IF \E i \in 1..Len(s) : s[i] \in NonAscii THEN "ValueError"
    ELSE IF B64Scan(s, 0, 0) THEN "ok" ELSE "binascii.Error"

\* RFC 4648 base64: groups of four alphabet characters, the last group
\* possibly ending with one or two '='
ValidBase64(s) ==
    /\ Len(s) % 4 = 0
    /\ \A i \in 1..Len(s) :
          \/ s[i] \in B64Alphabet
          \/ s[i] = "=" /\ i >= Len(s) - 1 /\ i >= 3
                        /\ \A j \in (i + 1)..Len(s) : s[j] = "="

(***************************************************************************)
(* Text normalisation.                                                     *)
(***************************************************************************)
\* str.upper() of one character
UpperChar(c) ==
    CASE c = "a" -> "A" [] c = "h" -> "H" [] c = "o" -> "O" [] c = "x" -> "X"
      [] c = "m" -> "M" [] c = "u" -> "U" [] c = "d" -> "D" [] c = "i" -> "I"
      [] c = "l" -> "L" [] c = "e" -> "E" [] c = "n" -> "N" [] c = "k" -> "K"
      [] OTHER -> c

\* index of the first space of s, Len(s) + 1 when there is none
FirstSpace(s) ==
    LET I == {i \in 1..Len(s) : s[i] = " "}
    IN  IF I = {} THEN Len(s) + 1 ELSE CHOOSE i \in I : \A j \in I : i <= j

RECURSIVE CollapseWhitespace(_)
\* ' '.join(raw_text.split())
CollapseWhitespace(s) ==
    LET t == LStrip(s)
        k == FirstSpace(t)
        rest == CollapseWhitespace(SubSeq(t, k, Len(t)))
    IN  IF t = <<>> THEN <<>>
        ELSE IF rest = <<>> THEN SubSeq(t, 1, k - 1)
        ELSE SubSeq(t, 1, k - 1) \o <<" ">> \o rest

RECURSIVE BoundarySplit(_)
\* the sentences of t: a sentence ends at '.', '!' or '?' followed by a space
BoundarySplit(t) ==
    LET I == {i \in 1..(Len(t) - 1) : t[i] \in {".", "!", "?"} /\ t[i + 1] = " "}
        i == CHOOSE i \in I : \A j \in I : i <= j
    IN  IF I = {} THEN <<t>>
        ELSE <<SubSeq(t, 1, i)>> \o BoundarySplit(SubSeq(t, i + 2, Len(t)))

\* nltk's sent_tokenize, on text without abbreviations or decimals
sent_tokenize(t) == IF t = <<>> THEN <<>> ELSE BoundarySplit(t)

\* a loop body that ends every sentence with a '.'
ProcessSentenceAlwaysDot(sentence) ==
    LET s == Strip(sentence)
    IN  <<UpperChar(s[1])>> \o SubSeq(s, 2, Len(s)) \o <<".">>

\* one sentence of the loop of post_process_text
ProcessSentence(sentence) ==
    LET s == Strip(sentence)
        c == <<UpperChar(s[1])>> \o SubSeq(s, 2, Len(s))
    IN  IF s[Len(s)] \notin {".", "!", "?"} THEN c \o <<".">> ELSE c

RECURSIVE JoinSentences(_)
JoinSentences(ss) ==
    IF ss = <<>> THEN <<>>
    ELSE IF Strip(Head(ss)) = <<>> THEN JoinSentences(Tail(ss))
    ELSE LET rest == JoinSentences(Tail(ss))
         IN  IF rest = <<>> THEN ProcessSentence(Head(ss))
             ELSE ProcessSentence(Head(ss)) \o <<" ">> \o rest

RECURSIVE MarkBoundaries(_, _)
\* text.replace(c + ' ', c + '|')
MarkBoundaries(t, c) ==
    IF Len(t) < 2 THEN t
    ELSE IF t[1] = c /\ t[2] = " "
    THEN <<c, "|">> \o MarkBoundaries(SubSeq(t, 3, Len(t)), c)
    ELSE <<t[1]>> \o MarkBoundaries(Tail(t), c)

RECURSIVE SplitOnBar(_)
\* text.split('|')
SplitOnBar(t) ==
    LET I == {i \in 1..Len(t) : t[i] = "|"}
        i == CHOOSE i \in I : \A j \in I : i <= j
    IN  IF I = {} THEN <<t>>
        ELSE <<SubSeq(t, 1, i - 1)>> \o SplitOnBar(SubSeq(t, i + 1, Len(t)))

\* the fallback of the Heroku variant:
\* text.replace('. ', '.|').replace('! ', '!|').replace('? ', '?|').split('|')
FallbackSplit(t) ==
    SplitOnBar(MarkBoundaries(MarkBoundaries(MarkBoundaries(t, "."), "!"), "?"))

\* post_process_text(raw_text) of the Heroku variant when sent_tokenize raises
post_process_text_fallback(raw_text) ==
    IF raw_text = <<>> THEN <<>>
    ELSE JoinSentences(FallbackSplit(CollapseWhitespace(raw_text)))

\* post_process_text(raw_text) when the segmenter answers
post_process_text(raw_text) ==
    IF raw_text = <<>> THEN <<>>
    ELSE JoinSentences(sent_tokenize(CollapseWhitespace(raw_text)))

\* whether post_process_text raises: only the variant without the fallback,
\* and only when the segmenter is reached and fails
PostProcessRaises(raw_text, nltkOk) ==
    raw_text # <<>> /\ ~nltkOk /\ variant = "app"

(***************************************************************************)
(* The worksheet of the transcript pipeline.  A row is                     *)
(* <<timestamp, file name, text>>.                                         *)
(***************************************************************************)
AudioFilenameHdr ==
    <<"A", "u", "d", "i", "o", " ", "F", "i", "l", "e", "n", "a", "m", "e">>
TranscribedTextHdr ==
    <<"T", "r", "a", "n", "s", "c", "r", "i", "b", "e", "d", " ", "T", "e", "x", "t">>

\* headers = ["Timestamp", "Audio Filename", "Transcribed Text"]
HEADERS == <<"Timestamp", AudioFilenameHdr, TranscribedTextHdr>>

NoSheet == [exists |-> FALSE, rows |-> <<>>]

\* worksheet.col_values(n)
col_values(ws, n) == [i \in 1..Len(ws.rows) |-> ws.rows[i][n]]

\* a write that lands on the last row when there is one
AppendRowOverLast(ws, values) ==
    IF ws.rows = <<>> THEN [ws EXCEPT !.rows = <<values>>]
    ELSE [ws EXCEPT !.rows[Len(ws.rows)] = values]

\* an append that does nothing when the key column already holds the key
AppendRowIfAbsent(ws, values) ==
    IF \E i \in 1..Len(ws.rows) : ws.rows[i][2] = values[2] THEN ws
    ELSE [ws EXCEPT !.rows = Append(@, values)]

\* worksheet.append_row(values): a new row after the last one
append_row(ws, values) == [ws EXCEPT !.rows = Append(@, values)]

\* worksheet.update_cell(row, col, value)
update_cell(ws, row, col, value) == [ws EXCEPT !.rows[row][col] = value]

\* FoundRowIndex without the "+ 1" that turns the position into a row number
FoundRowIndexZeroBased(filename_col_values, audio_filename) ==
    LET I == {i \in 1..Len(filename_col_values) :
                 filename_col_values[i] = audio_filename}
    IN  IF I = {} THEN 0 ELSE (CHOOSE i \in I : \A j \in I : i <= j) - 1

\* a scan that keeps the last match instead of stopping at the first
FoundRowIndexLast(filename_col_values, audio_filename) ==
    LET I == {i \in 1..Len(filename_col_values) :
                 filename_col_values[i] = audio_filename}
    IN  IF I = {} THEN 0 ELSE CHOOSE i \in I : \A j \in I : j <= i

\* the scan for an existing entry: the 1-based index of the first cell of
\* the file name column equal to audio_filename, 0 (None) when there is none
FoundRowIndex(filename_col_values, audio_filename) ==
    LET I == {i \in 1..Len(filename_col_values) :
                 filename_col_values[i] = audio_filename}
    IN  IF I = {} THEN 0 ELSE CHOOSE i \in I : \A j \in I : i <= j

\* datetime.now().strftime("%Y-%m-%d %H:%M:%S")
strftime(now) == ToString(now)

(***************************************************************************)
(* Inputs of the model.                                                    *)
(***************************************************************************)
CleanName == <<"a", ".", "m">>
FileNames == {CleanName, <<>>, AudioFilenameHdr}

FileDatas ==
    { <<"A", "A", "A", "A">>,          \* valid base64
      <<"A", "A", "=", "A">>,          \* padding inside the data: refused
      <<"A", "A", "A", "A", "!">>,     \* a stray character: discarded
      <<"~e">> }                       \* a non-ASCII character

RawTexts == { <<>>, <<"h", "i">> }

InitRow == <<"0", CleanName, <<"O", "l", "d", ".">>>>

InitSheets ==
    { NoSheet,
      [exists |-> TRUE, rows |-> <<>>],
      [exists |-> TRUE, rows |-> <<HEADERS>>],
      [exists |-> TRUE, rows |-> <<HEADERS, InitRow>>] }

(***************************************************************************)
(* The VideoAsk webhook: payloads, the mapping and the worksheet.          *)
(***************************************************************************)
Categories == <<"intro", "influence", "advice", "purpose", "connected">>

\* the marker phrase of each question type, in the order of the if/elif chain
Marker ==
    [ intro |-> "Introduce Yourself", influence |-> "Foundation's Influence",
      advice |-> "Sharing Advice", purpose |-> "Purpose & Joy",
      connected |-> "Staying Connected" ]

\* marker in text: a label or a title is the sequence of its phrases
Contains(text, marker) == \E i \in 1..Len(text) : text[i] = marker

\* the last marker, in the order of the chain, that the label or the title
\* contains
QuestionTypeLast(question) ==
    LET hit(c) == \/ Contains(question.label, Marker[c])
                  \/ Contains(question.title, Marker[c])
        I == {i \in 1..Len(Categories) : hit(Categories[i])}
    IN  IF I = {} THEN NoneId
        ELSE Categories[CHOOSE i \in I : \A j \in I : i >= j]

\* the label decides before the title: the first marker of the label, and
\* the first marker of the title only when the label holds none
QuestionTypeLabelFirst(question) ==
    LET L == {i \in 1..Len(Categories) : Contains(question.label, Marker[Categories[i]])}
        T == {i \in 1..Len(Categories) : Contains(question.title, Marker[Categories[i]])}
    IN  IF L # {} THEN Categories[CHOOSE i \in L : \A j \in L : i <= j]
        ELSE IF T # {} THEN Categories[CHOOSE i \in T : \A j \in T : i <= j]
        ELSE NoneId

\* question_type of one question: the first marker, in the order of the
\* chain, that its label or its title contains; "None" when there is none
QuestionType(question) ==
    LET hit(c) == \/ Contains(question.label, Marker[c])
                  \/ Contains(question.title, Marker[c])
        I == {i \in 1..Len(Categories) : hit(Categories[i])}
    IN  IF I = {} THEN NoneId
        ELSE Categories[CHOOSE i \in I : \A j \in I : i <= j]

RECURSIVE QuestionMap(_)
\* question_map: question_id -> [type, share_url], a later question of the
\* same id replacing an earlier one
QuestionMap(questions) ==
    IF questions = <<>> THEN <<>>
    ELSE LET n == Len(questions)
             q == questions[n]
             before == QuestionMap(SubSeq(questions, 1, n - 1))
         IN  IF QuestionType(q) # NoneId /\ Truthy(q.question_id)
             THEN SelectSeq(before, LAMBDA e : e.question_id # q.question_id)
                  \o <<[question_id |-> q.question_id, type |-> QuestionType(q),
                        share_url |-> q.share_url]>>
             ELSE before

InQuestionMap(question_map, question_id) ==
    \E i \in 1..Len(question_map) : question_map[i].question_id = question_id

Lookup(question_map, question_id) ==
    question_map[CHOOSE i \in 1..Len(question_map) :
                     question_map[i].question_id = question_id]

\* answer_content, by the type of the answer
AnswerContent(answer) ==
    IF answer.type \in {"video", "audio"} THEN answer.transcription
    ELSE IF answer.type = "text" THEN answer.text
    ELSE IF answer.type = "poll" THEN answer.poll_option_content
    ELSE ""

\* the timestamps datetime.fromisoformat accepts (after 'Z' -> '+00:00'),
\* with their strftime('%Y-%m-%d %H:%M:%S')
IsoDates == {"2025-06-02T10:30:00Z"}
FormatIso(created_at) ==
    IF created_at = "2025-06-02T10:30:00Z" THEN "2025-06-02 10:30:00" ELSE ""

\* map_videoask_to_sheet raises: a truthy created_at that is no ISO timestamp
MapRaises(contact) ==
    Truthy(contact.created_at) /\ contact.created_at \notin IsoDates

EmptyCells == [c \in {Categories[i] : i \in 1..Len(Categories)} |-> ""]

RECURSIVE ProcessAnswersFirstWins(_, _, _)
\* a loop that fills a category once and keeps what it holds afterwards
ProcessAnswersFirstWins(answers, question_map, cells) ==
    IF answers = <<>> THEN cells
    ELSE LET a == Head(answers)
             e == Lookup(question_map, a.question_id)
             share_url == IF a.share_url = None THEN e.share_url ELSE a.share_url[1]
         IN  IF ~InQuestionMap(question_map, a.question_id)
             THEN ProcessAnswersFirstWins(Tail(answers), question_map, cells)
             ELSE IF cells.link[e.type] # ""
             THEN ProcessAnswersFirstWins(Tail(answers), question_map, cells)
             ELSE ProcessAnswersFirstWins(Tail(answers), question_map,
                      [link |-> [cells.link EXCEPT ![e.type] = share_url],
                       content |-> [cells.content EXCEPT ![e.type] = AnswerContent(a)]])

RECURSIVE ProcessAnswersKeepUnknown(_, _, _)
\* a loop that files an answer to an unknown question under 'connected'
ProcessAnswersKeepUnknown(answers, question_map, cells) ==
    IF answers = <<>> THEN cells
    ELSE LET a == Head(answers)
             known == InQuestionMap(question_map, a.question_id)
             e == Lookup(question_map, a.question_id)
             type == IF known THEN e.type ELSE "connected"
             share_url == IF a.share_url # None THEN a.share_url[1]
                          ELSE IF known THEN e.share_url ELSE ""
         IN  ProcessAnswersKeepUnknown(Tail(answers), question_map,
                 [link |-> [cells.link EXCEPT ![type] = share_url],
                  content |-> [cells.content EXCEPT ![type] = AnswerContent(a)]])

RECURSIVE ProcessAnswers(_, _, _)
\* the loop over contact['answers']: the link and content cells, by type
ProcessAnswers(answers, question_map, cells) ==
    IF answers = <<>> THEN cells
    ELSE LET a == Head(answers)
             e == Lookup(question_map, a.question_id)
             share_url == IF a.share_url = None THEN e.share_url ELSE a.share_url[1]
         IN  IF ~InQuestionMap(question_map, a.question_id)
             THEN ProcessAnswers(Tail(answers), question_map, cells)
             ELSE ProcessAnswers(Tail(answers), question_map,
                      [link |-> [cells.link EXCEPT ![e.type] = share_url],
                       content |-> [cells.content EXCEPT ![e.type] = AnswerContent(a)]])

\* map_videoask_to_sheet(contact, form), when it does not raise
map_videoask_to_sheet(contact, form) ==
    LET cells == ProcessAnswers(contact.answers, QuestionMap(form.questions),
                                [link |-> EmptyCells, content |-> EmptyCells])
    IN  [ Name |-> contact.name,
          DATE |-> IF Truthy(contact.created_at) THEN FormatIso(contact.created_at)
                   ELSE "",
          EMAIL |-> contact.email,
          LOCATION |-> contact.product_name,
          link |-> cells.link,
          content |-> cells.content ]

\* the header row of the VideoAsk worksheet ("[link]" and "[text]" stand for
\* the two emoji that prefix the column names)
VA_HEADERS ==
    << "Name", "HANNAH REV.", "DRE REV.", "DATE", "EMAIL", "LOCATION",
       "[link] Introduce Yourself", "[text] Introduce Yourself",
       "[link] Foundation's Influence", "[text] Foundation's Influence",
       "[link] Sharing Advice", "[text] Sharing Advice",
       "[link] Purpose & Joy", "[text] Purpose & Joy",
       "[link] Staying Connected", "[text] Staying Connected",
       "YEARS AT FOUNDATION", "FOUNDATION TEAMS (AI)", "FOUNDATION TEAMS (MANUAL)",
       "VIDEO QUALITY?", "AUDIO QUALITY?", "POTENTIAL PATHWAYS USAGE",
       "CONFIRMED PATHWAYS USAGE", "WTYSL NOTES", "UNCOMMON NOTES",
       "25th Anniversary Storylines", "PROGRAMMATIC TAGS" >>

\* a row that leaves out the two reviewer columns
RowDataWithoutReviewers(sheet_data) ==
    << sheet_data.Name, sheet_data.DATE, sheet_data.EMAIL,
       sheet_data.LOCATION,
       sheet_data.link["intro"], sheet_data.content["intro"],
       sheet_data.link["influence"], sheet_data.content["influence"],
       sheet_data.link["advice"], sheet_data.content["advice"],
       sheet_data.link["purpose"], sheet_data.content["purpose"],
       sheet_data.link["connected"], sheet_data.content["connected"],
       "", "", "", "", "", "", "", "", "", "", "", "", "" >>

\* row_data of update_videoask_google_sheet, in column order
RowData(sheet_data) ==
    << sheet_data.Name, "", "", sheet_data.DATE, sheet_data.EMAIL,
       sheet_data.LOCATION,
       sheet_data.link["intro"], sheet_data.content["intro"],
       sheet_data.link["influence"], sheet_data.content["influence"],
       sheet_data.link["advice"], sheet_data.content["advice"],
       sheet_data.link["purpose"], sheet_data.content["purpose"],
       sheet_data.link["connected"], sheet_data.content["connected"],
       "", "", "", "", "", "", "", "", "", "", "" >>

\* the payloads the webhook receives
Question(id, label, title) ==
    [question_id |-> id, label |-> label, title |-> title, share_url |-> "form-url"]
Answer(id, type, content, url) ==
    [question_id |-> id, type |-> type, transcription |-> content, text |-> content,
     poll_option_content |-> content, share_url |-> url]

Contact(created_at) ==
    [ name |-> "John Doe", email |-> "john.doe@example.com",
      created_at |-> created_at, product_name |-> "Test Location",
      answers |-> << Answer("intro_q1", "video", "Hello", Some("answer-url")),
                     Answer("unknown_q", "text", "Lost", None) >> ]

Form ==
    [ questions |-> << Question("intro_q1", <<"Introduce Yourself">>, <<"Tell us">>),
                       Question("other_q", <<"Other">>, <<"Other">>) >> ]

\* contact_null: the payload carries "contact": null, so payload.get('contact',
\* {}) is None
NoPayload == [event_type |-> NoneId, contact |-> Contact(""), form |-> Form,
              empty |-> TRUE, contact_null |-> FALSE]

Payload(event_type, created_at) ==
    [event_type |-> event_type, contact |-> Contact(created_at), form |-> Form,
     empty |-> FALSE, contact_null |-> FALSE]

Payloads ==
    { NoPayload,
      Payload("form_response", "2025-06-02T10:30:00Z"),
      Payload("form_response", ""),
      Payload("form_response", "yesterday"),
      [Payload("form_response", "") EXCEPT !.contact_null = TRUE],
      Payload("form_contact_created", "2025-06-02T10:30:00Z"),
      Payload(NoneId, "") }

InitVaSheets ==
    { NoSheet,
      [exists |-> TRUE, rows |-> <<>>],
      [exists |-> TRUE, rows |-> <<VA_HEADERS>>] }

(***************************************************************************)
(* The locals of one request.                                              *)
(***************************************************************************)
NoTemp == [id |-> 0, ext |-> <<>>]

IdleReq ==
    [ kind |-> "none",
      pc |-> "idle",
      has_fields |-> FALSE,
      file_name |-> <<>>,               \* original_file_name
      file_data |-> <<>>,               \* file_data_b64
      safe |-> <<>>,                    \* safe_original_filename
      temp |-> NoTemp,                  \* temp_file_path
      raw |-> None,                     \* raw_transcription
      processed |-> <<>>,               \* processed_transcription
      sheet_status |-> "unset",
      status |-> 0,                     \* HTTP status of the response
      transcription |-> None,           \* "transcription" of the response body
      caller |-> "none",                \* who called get_gspread_client
      found_row_index |-> 0,
      timestamp |-> "",
      \* history of the request
      decoded |-> "unset",              \* how b64decode ended
      temp_created |-> FALSE,
      remove_failed |-> FALSE,
      asr_failed |-> FALSE,
      normalized |-> FALSE,
      backup_written |-> FALSE,
      backup_failed |-> FALSE,
      store_called |-> FALSE,
      store_failed |-> FALSE,
      model_constructed |-> FALSE,      \* this request constructed WhisperModel
      client_constructed |-> FALSE,     \* this request constructed the client
      client_returned |-> "unset",      \* what get_gspread_client returned
      ws_before |-> NoSheet,            \* the worksheet when the write began
      \* the webhook: its payload, processing_stats and history
      payload |-> NoPayload,
      sheet_data |-> None,
      processed_count |-> 0,            \* processing_stats['processed']
      skipped |-> 0,                    \* processing_stats['skipped']
      errors |-> 0,                     \* processing_stats['errors']
      mapped |-> FALSE,
      local_copy |-> "unset",
      va_before |-> NoSheet ]           \* the VideoAsk worksheet on arrival

Set(p, r) == req' = [req EXCEPT ![p] = r]

\* the temporary file name: f"{uuid.uuid4()}{file_extension}"
TempName(uuid, safe_name) ==
    LET ext == SplitExt(safe_name)[2]
    IN  [id |-> uuid, ext |-> IF ext = <<>> THEN <<".", "m", "p", "3">> ELSE ext]

\* safe_original_filename
SafeName(original_file_name) ==
    LET s == Strip(Sanitize(original_file_name))
    IN  IF s = <<>>
        THEN <<"u", "p", "l", "o", "a", "d", "e", "d", "_", "a", "u", "d", "i", "o">>
        ELSE s

\* the status of the two except clauses of handle_transcribe
ExceptStatus(exception) == IF exception = "binascii.Error" THEN 400 ELSE 500

\* an exception (or an early return) inside the try block: on to finally
Fail(r, code) == [r EXCEPT !.status = code, !.pc = "finally"]

(***************************************************************************)
(* handle_transcribe: POST /transcribe.                                    *)
(***************************************************************************)
\* the request arrives; field validation, the sanitised name and the
\* temporary file name
ReceiveFrom(p, presence, names, datas) ==
    /\ req[p].pc = "idle"
    /\ served < MaxRequests
    /\ served' = served + 1
    /\ \E has_fields \in presence, name \in names, data \in datas :
          IF ~has_fields
          THEN Set(p, [IdleReq EXCEPT !.kind = "transcribe", !.pc = "done",
                                      !.status = 400])
          ELSE Set(p, [IdleReq EXCEPT
                          !.kind = "transcribe", !.pc = "decode",
                          !.has_fields = TRUE,
                          !.file_name = name, !.file_data = data,
                          !.safe = SafeName(name),
                          !.temp = TempName(served + 1, SafeName(name))])
    /\ UNCHANGED <<config, whisper_model_instance, gspread_client_instance, sheet,
                   vaSheet, clock, uploads, lastWrite, writeFailed>>

\* a request with any body
Receive(p) == ReceiveFrom(p, BOOLEAN, FileNames, FileDatas)

\* a request with both fields and valid audio, for a file name that is in
\* the worksheet or one that is not
ReceiveValid(p) ==
    ReceiveFrom(p, {TRUE}, {CleanName, <<>>}, {<<"A", "A", "A", "A">>})

\* audio_bytes = base64.b64decode(...); open(temp_file_path, 'wb'); f.write
DecodeAndSave(p) ==
    LET r == req[p]
        d == b64decode(r.file_data)
    IN  /\ r.pc = "decode"
        /\ IF d # "ok"
           THEN /\ Set(p, Fail([r EXCEPT !.decoded = d], ExceptStatus(d)))
                /\ UNCHANGED uploads
           ELSE \E io \in {"ok", "open fails", "write fails"} :
                   /\ uploads' = IF io = "open fails" THEN uploads
                                 ELSE uploads \cup {r.temp}
                   /\ Set(p, IF io = "ok"
                             THEN [r EXCEPT !.decoded = d, !.temp_created = TRUE,
                                            !.pc = "asr_exists"]
                             ELSE Fail([r EXCEPT !.decoded = d,
                                                 !.temp_created = (io # "open fails")],
                                       ExceptStatus("OSError")))
        /\ UNCHANGED <<config, whisper_model_instance, gspread_client_instance, sheet,
                       vaSheet, clock, served, lastWrite, writeFailed>>

\* TranscriptionFailed with the test dropped
TranscriptionFailedNever(raw) == FALSE

\* raw_transcription is None
TranscriptionFailed(raw) == raw = None

\* transcribe_audio has returned raw: the handler's test of the result
AfterTranscribe(r, raw) ==
    LET r1 == [r EXCEPT !.raw = raw, !.asr_failed = (raw = None)]
    IN  IF TranscriptionFailed(raw) THEN Fail(r1, 500)
        ELSE [r1 EXCEPT !.pc = "normalize"]

\* transcribe_audio: the file check and get_whisper_model's test of the global
AsrStart(p) ==
    LET r == req[p]
    IN  /\ r.pc = "asr_exists"
        /\ Set(p, IF r.temp \notin uploads THEN AfterTranscribe(r, None)
                  ELSE IF whisper_model_instance = "None"
                       THEN [r EXCEPT !.pc = "asr_load"]
                       ELSE [r EXCEPT !.pc = "asr_run"])
        /\ UNCHANGED <<config, whisper_model_instance, gspread_client_instance, sheet,
                       vaSheet, clock, uploads, served, lastWrite,
                       writeFailed>>

\* get_whisper_model: WhisperModel(...) is constructed, or raises
AsrLoad(p) ==
    LET r == req[p]
    IN  /\ r.pc = "asr_load"
        /\ \E loaded \in BOOLEAN :
              IF loaded
              THEN /\ whisper_model_instance' = "model"
                   /\ Set(p, [r EXCEPT !.model_constructed = TRUE,
                                       !.pc = "asr_run"])
              ELSE /\ UNCHANGED whisper_model_instance
                   /\ Set(p, AfterTranscribe(r, None))
        /\ UNCHANGED <<config, gspread_client_instance, sheet, vaSheet, clock,
                       uploads, served, lastWrite, writeFailed>>

\* model.transcribe(...): the joined, stripped segments, or an exception
AsrRun(p) ==
    LET r == req[p]
    IN  /\ r.pc = "asr_run"
        /\ \E out \in {None} \cup {Some(t) : t \in RawTexts} :
              Set(p, AfterTranscribe(r, IF out = None THEN None
                                        ELSE Some(Strip(out[1]))))
        /\ UNCHANGED <<config, whisper_model_instance, gspread_client_instance, sheet,
                       vaSheet, clock, uploads, served, lastWrite,
                       writeFailed>>

\* processed_transcription = post_process_text(raw_transcription); a falsy
\* raw_text (None or "") is answered with "" before the segmenter is reached
Normalize(p) ==
    LET r == req[p]
        raw_text == IF r.raw = None THEN <<>> ELSE r.raw[1]
    IN  /\ r.pc = "normalize"
        /\ \E nltkOk \in BOOLEAN :
              Set(p, IF PostProcessRaises(raw_text, nltkOk)
                     THEN Fail(r, ExceptStatus("LookupError"))
                     ELSE [r EXCEPT !.processed =
                                        IF nltkOk THEN post_process_text(raw_text)
                                        ELSE post_process_text_fallback(raw_text),
                                    !.normalized = TRUE, !.pc = "backup"])
        /\ UNCHANGED <<config, whisper_model_instance, gspread_client_instance, sheet,
                       vaSheet, clock, uploads, served, lastWrite, writeFailed>>

\* if GOOGLE_SHEET_ID: in the handler
SheetConfigured == Truthy(GOOGLE_SHEET_ID)

\* the response of the success path: jsonify({...}) with status 200
Respond(r, sheet_status) ==
    [r EXCEPT !.sheet_status = sheet_status, !.status = 200,
              !.transcription = Some(r.processed), !.pc = "finally"]

\* the snapshot in transcripts/ is written (or open/json.dump raises), then
\* sheet_status = "not_attempted" and the test of GOOGLE_SHEET_ID
Backup(p) ==
    LET r == req[p]
    IN  /\ r.pc = "backup"
        /\ \E written \in BOOLEAN :
              IF written
              THEN Set(p, IF SheetConfigured
                        THEN [r EXCEPT !.backup_written = TRUE,
                                       !.sheet_status = "not_attempted",
                                       !.pc = "ws_enter"]
                        ELSE Respond([r EXCEPT !.backup_written = TRUE],
                                     "not_attempted"))
              ELSE Set(p, Fail([r EXCEPT !.backup_failed = TRUE],
                               ExceptStatus("OSError")))
        /\ UNCHANGED <<config, whisper_model_instance, gspread_client_instance, sheet,
                       vaSheet, clock, uploads, served, lastWrite, writeFailed>>

(***************************************************************************)
(* get_gspread_client and write_to_google_sheet, one step per call to the  *)
(* store.                                                                  *)
(***************************************************************************)
\* sheet_status after write_to_google_sheet returned sheet_success
SheetStatus(sheet_success) == IF sheet_success THEN "success" ELSE "failed"

\* WsReturn with a failed store write escalated to a 500 response
WsReturnEscalates(r, sheet_success) ==
    IF sheet_success THEN Respond(r, "success")
    ELSE Fail([r EXCEPT !.store_failed = TRUE, !.sheet_status = "failed"], 500)

\* write_to_google_sheet returns to the handler
WsReturn(r, sheet_success) ==
    Respond([r EXCEPT !.store_failed = ~sheet_success], SheetStatus(sheet_success))

\* a caller that leaves a failed write out of the counters
VaReturnUncounted(r, sheet_success) ==
    IF sheet_success
    THEN [r EXCEPT !.processed_count = @ + 1, !.pc = "hk_backup"]
    ELSE [r EXCEPT !.store_failed = TRUE, !.pc = "hk_backup"]

\* update_videoask_google_sheet returns to process_videoask_payload, which
\* counts the write and goes on to the local copy
VaReturn(r, sheet_success) ==
    IF sheet_success
    THEN [r EXCEPT !.processed_count = @ + 1, !.pc = "hk_backup"]
    ELSE [r EXCEPT !.errors = @ + 1, !.store_failed = TRUE, !.pc = "hk_backup"]

\* get_gspread_client returns client to its caller
GsReturn(r, client) ==
    LET rr == [r EXCEPT !.client_returned = client]
    IN  IF r.caller = "va"
        THEN IF client = "None" THEN VaReturn(rr, FALSE)
             ELSE [rr EXCEPT !.pc = "va_open"]
        ELSE IF client = "None" THEN WsReturn(rr, FALSE)
             ELSE [rr EXCEPT !.pc = "ws_open"]

\* write_to_google_sheet is entered: the test of GOOGLE_SHEET_ID, then the
\* call of get_gspread_client
WsEnter(p) ==
    LET r == req[p]
    IN  /\ r.pc = "ws_enter"
        /\ Set(p, IF ~Truthy(GOOGLE_SHEET_ID) THEN WsReturn(r, TRUE)
                  ELSE [r EXCEPT !.caller = "ws", !.ws_before = sheet,
                                 !.pc = "gs_check"])
        /\ UNCHANGED <<config, whisper_model_instance, gspread_client_instance, sheet,
                       vaSheet, clock, uploads, served, lastWrite,
                       writeFailed>>

\* get_gspread_client: if gspread_client_instance is None
GsCheck(p) ==
    LET r == req[p]
    IN  /\ r.pc = "gs_check"
        /\ Set(p, IF gspread_client_instance = "None"
                  THEN [r EXCEPT !.pc = "gs_construct"]
                  ELSE GsReturn(r, gspread_client_instance))
        /\ UNCHANGED <<config, whisper_model_instance, gspread_client_instance, sheet,
                       vaSheet, clock, uploads, served, lastWrite,
                       writeFailed>>

\* get_gspread_client: os.path.exists(service_account_file), then
\* gspread.service_account(...), which authorizes or raises
GsConstruct(p) ==
    LET r == req[p]
    IN  /\ r.pc = "gs_construct"
        /\ \E creds \in {"missing", "refused", "authorized"} :
              /\ gspread_client_instance' =
                    CASE creds = "missing" -> gspread_client_instance
                      [] creds = "refused" -> "None"
                      [] creds = "authorized" -> "client"
              /\ Set(p, IF creds # "authorized" THEN GsReturn(r, "None")
                        ELSE IF Truthy(GOOGLE_SHEET_ID)
                             THEN [r EXCEPT !.client_constructed = TRUE,
                                            !.pc = "gs_test"]
                             ELSE GsReturn([r EXCEPT !.client_constructed = TRUE],
                                           "client"))
        /\ UNCHANGED <<config, whisper_model_instance, sheet, vaSheet, clock, uploads,
                       served, lastWrite, writeFailed>>

\* the outcomes of client.open_by_key(key)
OpenOutcomes(key) ==
    IF key \in Spreadsheets THEN {"ok", "APIError", "Exception"}
    ELSE {"APIError", "Exception"}

\* get_gspread_client: the connection test gspread_client_instance.open_by_key
GsTest(p) ==
    LET r == req[p]
    IN  /\ r.pc = "gs_test"
        /\ \E out \in OpenOutcomes(GOOGLE_SHEET_ID) :
              /\ (gspread_client_instance = "None" => out = "Exception")
              /\ gspread_client_instance' =
                    IF out = "Exception" THEN "None" ELSE gspread_client_instance
              /\ Set(p, GsReturn([r EXCEPT !.store_called = TRUE],
                                 IF out = "ok" THEN gspread_client_instance
                                 ELSE "None"))
        /\ UNCHANGED <<config, whisper_model_instance, sheet, vaSheet, clock, uploads,
                       served, lastWrite, writeFailed>>

\* spreadsheet = client.open_by_key(GOOGLE_SHEET_ID)
WsOpen(p) ==
    LET r == [req[p] EXCEPT !.store_called = TRUE]
    IN  /\ r.pc = "ws_open"
        /\ \E out \in OpenOutcomes(GOOGLE_SHEET_ID) :
              Set(p, IF out = "ok" THEN [r EXCEPT !.pc = "ws_worksheet"]
                     ELSE WsReturn(r, FALSE))
        /\ UNCHANGED <<config, whisper_model_instance, gspread_client_instance, sheet,
                       vaSheet, clock, uploads, served, lastWrite,
                       writeFailed>>

\* worksheet = spreadsheet.worksheet(GSHEET_WORKSHEET_NAME)
WsWorksheet(p) ==
    LET r == [req[p] EXCEPT !.store_called = TRUE]
    IN  /\ r.pc = "ws_worksheet"
        /\ \E ok \in BOOLEAN :
              Set(p, IF ~ok THEN WsReturn(r, FALSE)
                     ELSE IF sheet.exists THEN [r EXCEPT !.pc = "ws_values"]
                     ELSE [r EXCEPT !.pc = "ws_add"])
        /\ UNCHANGED <<config, whisper_model_instance, gspread_client_instance, sheet,
                       vaSheet, clock, uploads, served, lastWrite,
                       writeFailed>>

\* values = worksheet.get_all_values(); if not values
WsValues(p) ==
    LET r == [req[p] EXCEPT !.store_called = TRUE]
    IN  /\ r.pc = "ws_values"
        /\ \E ok \in BOOLEAN :
              Set(p, IF ~ok THEN WsReturn(r, FALSE)
                     ELSE IF sheet.rows = <<>> THEN [r EXCEPT !.pc = "ws_headers"]
                     ELSE [r EXCEPT !.pc = "ws_scan"])
        /\ UNCHANGED <<config, whisper_model_instance, gspread_client_instance, sheet,
                       vaSheet, clock, uploads, served, lastWrite,
                       writeFailed>>

\* except WorksheetNotFound: spreadsheet.add_worksheet(...)
WsAdd(p) ==
    LET r == [req[p] EXCEPT !.store_called = TRUE]
    IN  /\ r.pc = "ws_add"
        /\ \E ok \in BOOLEAN :
              IF ok /\ ~sheet.exists
              THEN /\ sheet' = [exists |-> TRUE, rows |-> <<>>]
                   /\ Set(p, [r EXCEPT !.pc = "ws_headers"])
              ELSE /\ UNCHANGED sheet
                   /\ Set(p, WsReturn(r, FALSE))
        /\ UNCHANGED <<config, whisper_model_instance, gspread_client_instance,
                       vaSheet, clock, uploads, served, lastWrite,
                       writeFailed>>

\* worksheet.append_row(headers)
WsHeaders(p) ==
    LET r == [req[p] EXCEPT !.store_called = TRUE]
    IN  /\ r.pc = "ws_headers"
        /\ \E ok \in BOOLEAN :
              IF ok
              THEN /\ sheet' = append_row(sheet, HEADERS)
                   /\ Set(p, [r EXCEPT !.pc = "ws_scan"])
              ELSE /\ UNCHANGED sheet
                   /\ Set(p, WsReturn(r, FALSE))
        /\ UNCHANGED <<config, whisper_model_instance, gspread_client_instance,
                       vaSheet, clock, uploads, served, lastWrite,
                       writeFailed>>

\* the key of the upsert: audio_filename=original_file_name
AudioFilename(r) == r.file_name

\* timestamp = datetime.now()... (the clock has not gone back since it was
\* last read); filename_col_values = worksheet.col_values(2); the scan for
\* found_row_index
WsScan(p) ==
    /\ req[p].pc = "ws_scan"
    /\ \E now \in clock..MaxClock, ok \in BOOLEAN :
          LET r == [req[p] EXCEPT !.store_called = TRUE,
                                  !.timestamp = strftime(now)]
              found == FoundRowIndex(col_values(sheet, 2), AudioFilename(r))
          IN  /\ clock' = now
              /\ Set(p, IF ~ok THEN WsReturn(r, FALSE)
                        ELSE [r EXCEPT !.found_row_index = found,
                                       !.pc = IF found # 0 THEN "ws_update_ts"
                                              ELSE "ws_append"])
    /\ UNCHANGED <<config, whisper_model_instance, gspread_client_instance, sheet,
                   vaSheet, uploads, served, lastWrite, writeFailed>>

\* worksheet.update_cell(found_row_index, 1, timestamp)
WsUpdateTimestamp(p) ==
    LET r == req[p]
    IN  /\ r.pc = "ws_update_ts"
        /\ \E ok \in BOOLEAN :
              IF ok
              THEN /\ sheet' = update_cell(sheet, r.found_row_index, 1, r.timestamp)
                   /\ Set(p, [r EXCEPT !.pc = "ws_update_text"])
              ELSE /\ UNCHANGED sheet
                   /\ Set(p, WsReturn(r, FALSE))
        /\ UNCHANGED <<config, whisper_model_instance, gspread_client_instance,
                       vaSheet, clock, uploads, served, lastWrite,
                       writeFailed>>

\* the record of a successful upsert
Written(r) ==
    [lastWrite EXCEPT ![AudioFilename(r)] = Some(<<r.timestamp, r.processed>>)]

\* worksheet.update_cell(found_row_index, 3, transcript_text); return True
WsUpdateText(p) ==
    LET r == req[p]
    IN  /\ r.pc = "ws_update_text"
        /\ \E ok \in BOOLEAN :
              IF ok
              THEN /\ sheet' = update_cell(sheet, r.found_row_index, 3, r.processed)
                   /\ lastWrite' = Written(r)
                   /\ Set(p, WsReturn(r, TRUE))
              ELSE /\ UNCHANGED <<sheet, lastWrite>>
                   /\ Set(p, WsReturn(r, FALSE))
        /\ UNCHANGED <<config, whisper_model_instance, gspread_client_instance,
                       vaSheet, clock, uploads, served, writeFailed>>

\* worksheet.append_row(new_row_data); return True
WsAppend(p) ==
    LET r == req[p]
    IN  /\ r.pc = "ws_append"
        /\ \E ok \in BOOLEAN :
              IF ok
              THEN /\ sheet' = append_row(sheet, <<r.timestamp, AudioFilename(r),
                                                   r.processed>>)
                   /\ lastWrite' = Written(r)
                   /\ Set(p, WsReturn(r, TRUE))
              ELSE /\ UNCHANGED <<sheet, lastWrite>>
                   /\ Set(p, WsReturn(r, FALSE))
        /\ UNCHANGED <<config, whisper_model_instance, gspread_client_instance,
                       vaSheet, clock, uploads, served, writeFailed>>

\* Cleanup that never removes the file
(***************************************************************************)
(* POST /webhook/videoask                                                  *)
(***************************************************************************)
HookFrame == <<config, whisper_model_instance, sheet, clock, uploads, lastWrite,
               writeFailed>>

\* videoask_webhook: payload = request.get_json(); an empty payload is a 400
HookReceive(p) ==
    /\ req[p].pc = "idle"
    /\ served < MaxRequests
    /\ served' = served + 1
    /\ \E payload \in Payloads :
          Set(p, IF payload.empty
                 THEN [IdleReq EXCEPT !.kind = "hook", !.pc = "done", !.status = 400]
                 ELSE [IdleReq EXCEPT !.kind = "hook", !.pc = "hk_event",
                                      !.caller = "va", !.payload = payload,
                                      !.va_before = vaSheet])
    /\ UNCHANGED <<HookFrame, gspread_client_instance, vaSheet>>

\* a filter that lets every event type through
EventAcceptedAlways(event_type) == TRUE

\* the test of process_videoask_payload: events of this type are processed
EventAccepted(event_type) == event_type = "form_response"

\* process_videoask_payload: the event type is read and tested; then
\* contact.get('email', ...) is called outside the try block, and what it
\* raises reaches the handler of videoask_webhook, which answers 500
HookEvent(p) ==
    LET r == req[p]
    IN  /\ r.pc = "hk_event"
        /\ Set(p, IF ~EventAccepted(r.payload.event_type)
                  THEN [r EXCEPT !.skipped = 1, !.pc = "hk_respond"]
                  ELSE IF r.payload.contact_null
                  THEN [r EXCEPT !.status = 500, !.pc = "done"]
                  ELSE [r EXCEPT !.pc = "hk_map"])
        /\ UNCHANGED <<HookFrame, gspread_client_instance, vaSheet, served>>

\* sheet_data = map_videoask_to_sheet(contact, form); what it raises is
\* caught by the outer handler, which counts an error
HookMap(p) ==
    LET r == req[p]
    IN  /\ r.pc = "hk_map"
        /\ Set(p, IF MapRaises(r.payload.contact)
                  THEN [r EXCEPT !.errors = @ + 1, !.pc = "hk_respond"]
                  ELSE [r EXCEPT
                           !.mapped = TRUE,
                           !.sheet_data =
                               Some(map_videoask_to_sheet(r.payload.contact,
                                                          r.payload.form)),
                           !.pc = "gs_check"])
        /\ UNCHANGED <<HookFrame, gspread_client_instance, vaSheet, served>>

\* spreadsheet = client.open_by_key(videoask_sheet_id)
VaOpen(p) ==
    LET r == [req[p] EXCEPT !.store_called = TRUE]
    IN  /\ r.pc = "va_open"
        /\ \E out \in OpenOutcomes(videoask_sheet_id) :
              Set(p, IF out = "ok" THEN [r EXCEPT !.pc = "va_worksheet"]
                     ELSE VaReturn(r, FALSE))
        /\ UNCHANGED <<HookFrame, gspread_client_instance, vaSheet, served>>

\* worksheet = spreadsheet.worksheet(videoask_worksheet_name)
VaWorksheet(p) ==
    LET r == req[p]
    IN  /\ r.pc = "va_worksheet"
        /\ \E ok \in BOOLEAN :
              Set(p, IF ~ok THEN VaReturn(r, FALSE)
                     ELSE IF vaSheet.exists THEN [r EXCEPT !.pc = "va_append"]
                     ELSE [r EXCEPT !.pc = "va_add"])
        /\ UNCHANGED <<HookFrame, gspread_client_instance, vaSheet, served>>

\* worksheet = spreadsheet.add_worksheet(title=videoask_worksheet_name, ...)
VaAdd(p) ==
    LET r == req[p]
    IN  /\ r.pc = "va_add"
        /\ \E ok \in BOOLEAN :
              IF ok /\ ~vaSheet.exists
              THEN /\ vaSheet' = [exists |-> TRUE, rows |-> <<>>]
                   /\ Set(p, [r EXCEPT !.pc = "va_headers"])
              ELSE /\ UNCHANGED vaSheet
                   /\ Set(p, VaReturn(r, FALSE))
        /\ UNCHANGED <<HookFrame, gspread_client_instance, served>>

\* worksheet.append_row(headers)
VaHeaders(p) ==
    LET r == req[p]
    IN  /\ r.pc = "va_headers"
        /\ \E ok \in BOOLEAN :
              IF ok
              THEN /\ vaSheet' = append_row(vaSheet, VA_HEADERS)
                   /\ Set(p, [r EXCEPT !.pc = "va_append"])
              ELSE /\ UNCHANGED vaSheet
                   /\ Set(p, VaReturn(r, FALSE))
        /\ UNCHANGED <<HookFrame, gspread_client_instance, served>>

\* worksheet.append_row(row_data)
VaAppend(p) ==
    LET r == req[p]
    IN  /\ r.pc = "va_append"
        /\ \E ok \in BOOLEAN :
              IF ok
              THEN /\ vaSheet' = append_row(vaSheet, RowData(r.sheet_data[1]))
                   /\ Set(p, VaReturn(r, TRUE))
              ELSE /\ UNCHANGED vaSheet
                   /\ Set(p, VaReturn(r, FALSE))
        /\ UNCHANGED <<HookFrame, gspread_client_instance, served>>

\* save_local_copy(payload, sheet_data): it catches whatever its writes
\* raise, so the handler around the call never runs
HookBackup(p) ==
    LET r == req[p]
    IN  /\ r.pc = "hk_backup"
        /\ \E ok \in BOOLEAN :
              Set(p, [r EXCEPT !.local_copy = IF ok THEN "saved" ELSE "failed",
                               !.pc = "hk_respond"])
        /\ UNCHANGED <<HookFrame, gspread_client_instance, vaSheet, served>>

\* videoask_webhook: the summary of processing_stats is returned with 200
HookRespond(p) ==
    LET r == req[p]
    IN  /\ r.pc = "hk_respond"
        /\ Set(p, [r EXCEPT !.status = 200, !.pc = "done"])
        /\ UNCHANGED <<HookFrame, gspread_client_instance, vaSheet, served>>

CleanupNever(files, path, removed) == files

\* finally: the temporary file is removed if it exists; a failing os.remove
\* is logged
Cleanup(files, path, removed) ==
    IF path \in files /\ removed THEN files \ {path} ELSE files

Finally(p) ==
    LET r == req[p]
    IN  /\ r.pc = "finally"
        /\ \E removed \in BOOLEAN :
              /\ (r.temp \notin uploads => removed)
              /\ uploads' = Cleanup(uploads, r.temp, removed)
              /\ Set(p, [r EXCEPT !.pc = "done", !.remove_failed = ~removed])
        /\ UNCHANGED <<config, whisper_model_instance, gspread_client_instance, sheet,
                       vaSheet, clock, served, lastWrite, writeFailed>>

\* the response has been sent; the worker is free again
Done(p) ==
    /\ req[p].pc = "done"
    /\ Set(p, IdleReq)
    /\ writeFailed' = (writeFailed \/ req[p].store_failed)
    /\ UNCHANGED <<config, whisper_model_instance, gspread_client_instance, sheet,
                   vaSheet, clock, uploads, served, lastWrite>>

(***************************************************************************)
(* The transcript pipeline, one request at a time per worker.              *)
(***************************************************************************)
Init ==
    /\ variant \in {"app", "heroku"}
    /\ envSheetId \in {NoneId, "sheet1"}
    /\ envVideoaskId = NoneId
    /\ whisper_model_instance = "None"
    /\ gspread_client_instance = "None"
    /\ sheet \in InitSheets
    /\ vaSheet = NoSheet
    /\ clock = 1
    /\ uploads = {}
    /\ served = 0
    /\ req = [p \in Workers |-> IdleReq]
    /\ lastWrite = [n \in FileNames |-> None]
    /\ writeFailed = FALSE

TranscribeStep(p) ==
    \/ Receive(p)
    \/ DecodeAndSave(p)
    \/ AsrStart(p)
    \/ AsrLoad(p)
    \/ AsrRun(p)
    \/ Normalize(p)
    \/ Backup(p)
    \/ WsEnter(p)
    \/ GsCheck(p)
    \/ GsConstruct(p)
    \/ GsTest(p)
    \/ WsOpen(p)
    \/ WsWorksheet(p)
    \/ WsValues(p)
    \/ WsAdd(p)
    \/ WsHeaders(p)
    \/ WsScan(p)
    \/ WsUpdateTimestamp(p)
    \/ WsUpdateText(p)
    \/ WsAppend(p)
    \/ Finally(p)
    \/ Done(p)

Next == \E p \in SeqWorkers : TranscribeStep(p)

Spec == Init /\ [][Next]_vars

(***************************************************************************)
(* The webhook pipeline (src/app.py only), one request at a time.          *)
(***************************************************************************)
InitHook ==
    /\ variant = "app"
    /\ envSheetId \in {NoneId, "sheet1"}
    /\ envVideoaskId \in {NoneId, "sheet1"}
    /\ whisper_model_instance = "None"
    /\ gspread_client_instance = "None"
    /\ sheet = NoSheet
    /\ vaSheet \in InitVaSheets
    /\ clock = 1
    /\ uploads = {}
    /\ served = 0
    /\ req = [p \in Workers |-> IdleReq]
    /\ lastWrite = [n \in FileNames |-> None]
    /\ writeFailed = FALSE

HookStep(p) ==
    \/ HookReceive(p)
    \/ HookEvent(p)
    \/ HookMap(p)
    \/ GsCheck(p)
    \/ GsConstruct(p)
    \/ GsTest(p)
    \/ VaOpen(p)
    \/ VaWorksheet(p)
    \/ VaAdd(p)
    \/ VaHeaders(p)
    \/ VaAppend(p)
    \/ HookBackup(p)
    \/ HookRespond(p)
    \/ Done(p)

NextHook == \E p \in SeqWorkers : HookStep(p)

SpecHook == InitHook /\ [][NextHook]_vars


(***************************************************************************)
(* Properties of the transcript pipeline.                                  *)
(***************************************************************************)
WritePcs == {"ws_enter", "gs_check", "gs_construct", "gs_test", "ws_open",
             "ws_worksheet", "ws_values", "ws_add", "ws_headers", "ws_scan",
             "ws_update_ts", "ws_update_text", "ws_append"}

NoWriteInFlight == \A p \in Workers : req[p].pc \notin WritePcs

AllWritesSucceeded == ~writeFailed /\ \A p \in Workers : ~req[p].store_failed

\* the rows whose file name cell is n
RowsOf(n) == {i \in 1..Len(sheet.rows) : sheet.rows[i][2] = n}

Finished(p) == req[p].kind = "transcribe" /\ req[p].pc = "done"

C2_InvalidBase64Rejected ==
    \A p \in Workers :
        (Finished(p) /\ req[p].has_fields /\ ~ValidBase64(req[p].file_data)) =>
            /\ req[p].status = 400
            /\ ~req[p].store_called
            /\ ~req[p].backup_written
            /\ req[p].temp \notin uploads

C4_StoreFailureDowngraded ==
    \A p \in Workers :
        (Finished(p) /\ req[p].normalized /\ req[p].store_failed) =>
            /\ req[p].status = 200
            /\ req[p].transcription = Some(req[p].processed)
            /\ req[p].sheet_status \in {"failed", "error"}

\* a store write that failed between its two cell updates
C4_Witness ==
    \E p \in Workers :
        /\ Finished(p) /\ req[p].store_failed /\ req[p].found_row_index # 0
        /\ req[p].status = 200 /\ req[p].processed # <<>>

\* C5: a failed snapshot write is not escalated: the request still returns
\* 200 with the transcription, and the store upsert is attempted as it
\* would have been.
C5_BackupFailureNotEscalated ==
    \A p \in Workers :
        (Finished(p) /\ req[p].backup_failed) =>
            /\ req[p].status = 200
            /\ req[p].transcription = Some(req[p].processed)
            /\ SheetConfigured => req[p].sheet_status \in {"success", "failed", "error"}

\* C6: when transcribe_audio yields nothing (the engine or its loading
\* raised), the request returns 500 and neither a store call nor a snapshot
\* write happens.
C6_AsrFailure ==
    \A p \in Workers :
        (Finished(p) /\ req[p].asr_failed) =>
            /\ req[p].status = 500
            /\ ~req[p].store_called
            /\ ~req[p].backup_written

\* a request whose engine raised although a spreadsheet is configured
C6_Witness ==
    \E p \in Workers :
        /\ Finished(p) /\ req[p].asr_failed /\ req[p].temp_created
        /\ SheetConfigured /\ whisper_model_instance = "model"

\* C7: with no spreadsheet identifier configured, a request whose
\* transcription succeeded (and was normalised and saved) makes no store call
\* and returns 200 with sheets_status 'not_attempted'.
C7_NotConfiguredSkips ==
    \A p \in Workers :
        (Finished(p) /\ envSheetId = NoneId /\ req[p].backup_written) =>
            /\ ~req[p].store_called
            /\ req[p].status = 200
            /\ req[p].sheet_status = "not_attempted"

\* C9: the key compared against and written into the file name column is
\* the sanitised file name: non-empty, only alphanumerics, '.', '_', '-'.
C9_KeyIsSanitized ==
    \A p \in Workers :
        req[p].pc \in {"ws_update_ts", "ws_update_text", "ws_append"} =>
            LET key == AudioFilename(req[p])
            IN  /\ key = req[p].safe
                /\ key # <<>>
                /\ \A i \in 1..Len(key) : SafeChar(key[i])

(***************************************************************************)
(* map_videoask_to_sheet called on its own (as /webhook/test does), over   *)
(* bounded forms and answers.                                              *)
(***************************************************************************)
MaxPhrases == 2
MaxAnswers == 3

SeqsUpTo(S, n) == UNION {[1..k -> S] : k \in 0..n}

\* the phrases a label or a title is made of
MapPhrases ==
    {"Introduce Yourself", "Foundation's Influence", "Sharing Advice",
     "Purpose & Joy", "Staying Connected", "About you"}

\* forms of one question, its label and title drawn from the phrases
OneQuestionForms ==
    { [questions |-> <<[question_id |-> "q1", label |-> label, title |-> title,
                        share_url |-> "form-url-q1"]>>] :
        label \in SeqsUpTo(MapPhrases, MaxPhrases),
        title \in SeqsUpTo(MapPhrases, MaxPhrases) }

\* forms of two questions: both of one category, or of two categories
TwoQuestionForms ==
    { [questions |->
         <<[question_id |-> "q1", label |-> <<"Introduce Yourself">>,
            title |-> <<>>, share_url |-> "form-url-q1"],
           [question_id |-> "q2", label |-> <<"About you">>,
            title |-> <<second>>, share_url |-> "form-url-q2"]>>] :
        second \in {"Introduce Yourself", "Sharing Advice"} }

\* the k-th answer of a contact: its contents are tagged by its position
AnswerAt(k, id, type, has_url) ==
    [question_id |-> id, type |-> type,
     transcription |-> "t" \o ToString(k), text |-> "x" \o ToString(k),
     poll_option_content |-> "p" \o ToString(k),
     share_url |-> IF has_url THEN Some("u" \o ToString(k)) ELSE None]

AnswerIds == {"q1", "q2", "zz", NoneId}
AnswerTypes == {"text", "other"}

\* what varies in one answer: its question_id, its type, whether it carries
\* a share_url
AnswerShapes == AnswerIds \X AnswerTypes \X BOOLEAN

AnswerLists ==
    { [k \in 1..Len(shapes) |->
          AnswerAt(k, shapes[k][1], shapes[k][2], shapes[k][3])] :
        shapes \in SeqsUpTo(AnswerShapes, MaxAnswers) }

\* the payload whose contact and form map_videoask_to_sheet is called with
MapPayload(form, answers) ==
    [Payload("form_response", "") EXCEPT !.form = form, !.contact.answers = answers]

MapFrame == <<config, whisper_model_instance, gspread_client_instance, sheet, vaSheet,
              clock, uploads, served, lastWrite, writeFailed>>

\* contact = sample_payload.get('contact', {}); form = ...get('form', {})
MapReceive(p) ==
    /\ req[p].pc = "idle"
    /\ \/ \E form \in OneQuestionForms :
             Set(p, [IdleReq EXCEPT
                        !.kind = "map", !.pc = "map_call",
                        !.payload =
                            MapPayload(form, <<AnswerAt(1, "q1", "video", TRUE)>>)])
       \/ \E form \in TwoQuestionForms, answers \in AnswerLists :
             Set(p, [IdleReq EXCEPT !.kind = "map", !.pc = "map_call",
                                    !.payload = MapPayload(form, answers)])
    /\ UNCHANGED MapFrame

\* mapped_data = map_videoask_to_sheet(contact, form)
MapApply(p) ==
    LET r == req[p]
    IN  /\ r.pc = "map_call"
        /\ Set(p, IF MapRaises(r.payload.contact)
                  THEN [r EXCEPT !.status = 500, !.pc = "map_done"]
                  ELSE [r EXCEPT
                           !.mapped = TRUE, !.status = 200,
                           !.sheet_data =
                               Some(map_videoask_to_sheet(r.payload.contact,
                                                          r.payload.form)),
                           !.pc = "map_done"])
        /\ UNCHANGED MapFrame

\* the mapped data has been returned
MapReturn(p) ==
    /\ req[p].pc = "map_done"
    /\ Set(p, IdleReq)
    /\ UNCHANGED MapFrame

NextMap == \E p \in SeqWorkers : MapReceive(p) \/ MapApply(p) \/ MapReturn(p)

InitMap ==
    /\ variant = "app"
    /\ envSheetId = NoneId
    /\ envVideoaskId = NoneId
    /\ whisper_model_instance = "None"
    /\ gspread_client_instance = "None"
    /\ sheet = NoSheet
    /\ vaSheet = NoSheet
    /\ clock = 1
    /\ uploads = {}
    /\ served = 0
    /\ req = [p \in Workers |-> IdleReq]
    /\ lastWrite = [n \in FileNames |-> None]
    /\ writeFailed = FALSE

SpecMap == InitMap /\ [][NextMap]_vars

(***************************************************************************)
(* post_process_text called on its own, over bounded texts, in both        *)
(* variants.                                                               *)
(***************************************************************************)
MaxTextLen == 5

TextAlphabet == {"a", "B", " ", ".", "?"}

TextInputs == SeqsUpTo(TextAlphabet, MaxTextLen)

TextReceive(p) ==
    /\ req[p].pc = "idle"
    /\ \E raw_text \in TextInputs :
          Set(p, [IdleReq EXCEPT !.kind = "text", !.pc = "text_call",
                                 !.raw = Some(raw_text)])
    /\ UNCHANGED MapFrame

\* processed_transcription = post_process_text(raw_transcription)
TextApply(p) ==
    LET r == req[p]
        raw_text == r.raw[1]
    IN  /\ r.pc = "text_call"
        /\ \E nltkOk \in BOOLEAN :
              Set(p, IF PostProcessRaises(raw_text, nltkOk)
                     THEN [r EXCEPT !.status = 500, !.pc = "text_done"]
                     ELSE [r EXCEPT !.processed =
                                        IF nltkOk THEN post_process_text(raw_text)
                                        ELSE post_process_text_fallback(raw_text),
                                    !.normalized = TRUE, !.pc = "text_done"])
        /\ UNCHANGED MapFrame

TextReturn(p) ==
    /\ req[p].pc = "text_done"
    /\ Set(p, IdleReq)
    /\ UNCHANGED MapFrame

NextText == \E p \in SeqWorkers : TextReceive(p) \/ TextApply(p) \/ TextReturn(p)

InitText ==
    /\ variant \in {"app", "heroku"}
    /\ envSheetId = NoneId
    /\ envVideoaskId = NoneId
    /\ whisper_model_instance = "None"
    /\ gspread_client_instance = "None"
    /\ sheet = NoSheet
    /\ vaSheet = NoSheet
    /\ clock = 1
    /\ uploads = {}
    /\ served = 0
    /\ req = [p \in Workers |-> IdleReq]
    /\ lastWrite = [n \in FileNames |-> None]
    /\ writeFailed = FALSE

SpecText == InitText /\ [][NextText]_vars

(***************************************************************************)
(* Claims about the webhook pipeline (SpecHook).                           *)
(***************************************************************************)
HookFinished(p) == req[p].kind = "hook" /\ req[p].pc = "done"

\* C8: when neither VIDEOASK_GOOGLE_SHEET_ID nor GOOGLE_SHEET_ID is set, a
\* form_response payload (whose mapping succeeded) makes no store call and is
\* not counted in the errors counter.
C8_HookNotConfiguredSkips ==
    \A p \in Workers :
        ( /\ HookFinished(p)
          /\ req[p].payload.event_type = "form_response"
          /\ req[p].mapped
          /\ envSheetId = NoneId /\ envVideoaskId = NoneId ) =>
            (~req[p].store_called /\ req[p].errors = 0)

\* C10: a payload whose event_type is not 'form_response' ends with
\* processed=0, skipped=1, errors=0, and no mapping, no store call and no local
\* copy was made for it.
C10_OtherEventsSkipped ==
    \A p \in Workers :
        ( /\ req[p].kind = "hook"
          /\ req[p].pc \in {"hk_respond", "done"}
          /\ req[p].status # 400
          /\ req[p].payload.event_type # "form_response" ) =>
            /\ req[p].processed_count = 0
            /\ req[p].skipped = 1
            /\ req[p].errors = 0
            /\ ~req[p].mapped /\ req[p].sheet_data = None
            /\ ~req[p].store_called
            /\ req[p].local_copy = "unset"

\* a payload of another event type has been answered
C10_Witness ==
    \E p \in Workers :
        /\ HookFinished(p)
        /\ req[p].status = 200
        /\ req[p].payload.event_type = "form_contact_created"
        /\ req[p].skipped = 1

\* C11: every non-empty payload is answered with 200 and the summary of the
\* counters, whatever failed while it was processed.
C11_HookAlways200 ==
    \A p \in Workers :
        (HookFinished(p) /\ ~req[p].payload.empty /\ req[p].status # 400) =>
            req[p].status = 200

\* C12: a form_response contact whose created_at is missing or is no
\* timestamp is still mapped, with an empty DATE and the other fields as
\* usual, and the pipeline goes on to the store write with that row.
C12_BadDateStillMapped ==
    \A p \in Workers :
        ( /\ HookFinished(p)
          /\ req[p].payload.event_type = "form_response"
          /\ ~req[p].payload.contact_null
          /\ req[p].payload.contact.created_at \notin IsoDates ) =>
            /\ req[p].mapped
            /\ req[p].errors = 0 \/ req[p].store_failed
            /\ req[p].sheet_data # None
            /\ req[p].sheet_data[1].DATE = ""
            /\ req[p].sheet_data[1].Name = req[p].payload.contact.name
            /\ req[p].sheet_data[1].EMAIL = req[p].payload.contact.email
            /\ req[p].local_copy # "unset"

(***************************************************************************)
(* Claims about map_videoask_to_sheet (SpecMap).                           *)
(***************************************************************************)
Mapped(p) == req[p].kind = "map" /\ req[p].pc = "map_done" /\ req[p].mapped

\* the markers that occur in a text, as positions of the fixed order
MarkersIn(text) == {i \in 1..Len(Categories) : Contains(text, Marker[Categories[i]])}

Earliest(I) == CHOOSE i \in I : \A j \in I : i <= j

OneQuestion(p) == Len(req[p].payload.form.questions) = 1

\* the categories whose link cell is filled in the row
Filled(p) ==
    {i \in 1..Len(Categories) : req[p].sheet_data[1].link[Categories[i]] # ""}

\* C13: a question whose label and title contain several markers is classified
\* as the earliest of them in the order intro, influence, advice, purpose,
\* connected: its answer lands in the cells of that category and of no other.
C13_EarliestMarkerWins ==
    \A p \in Workers :
        (Mapped(p) /\ OneQuestion(p)) =>
            LET q == req[p].payload.form.questions[1]
                M == MarkersIn(q.label) \cup MarkersIn(q.title)
            IN  Filled(p) = IF M = {} THEN {} ELSE {Earliest(M)}

\* a label holding 'Purpose & Joy' and then 'Sharing Advice' was classified as
\* advice
C13_Witness ==
    \E p \in Workers :
        /\ Mapped(p) /\ OneQuestion(p)
        /\ req[p].payload.form.questions[1].label = <<"Purpose & Joy", "Sharing Advice">>
        /\ req[p].payload.form.questions[1].title = <<>>
        /\ req[p].sheet_data[1].link["advice"] = "u1"
        /\ req[p].sheet_data[1].link["purpose"] = ""

\* C14 as stated: a question whose label contains a marker is classified by a
\* marker of its label, whatever its title contains; the title decides only
\* when the label holds no marker.
C14_LabelBeforeTitle ==
    \A p \in Workers :
        (Mapped(p) /\ OneQuestion(p)) =>
            LET q == req[p].payload.form.questions[1]
            IN  /\ MarkersIn(q.label) # {} => Filled(p) \subseteq MarkersIn(q.label)
                /\ MarkersIn(q.label) = {} =>
                       Filled(p) = IF MarkersIn(q.title) = {} THEN {}
                                   ELSE {Earliest(MarkersIn(q.title))}

\* C14 amended: the label comes before the title only within one marker.  A
\* question whose label contains a marker is classified by the earliest marker
\* of its label unless its title contains a marker that is earlier in the
\* fixed order, and then by the earliest marker of its title; the title also
\* decides when the label holds no marker.
C14_LabelOrTitlePerMarker ==
    \A p \in Workers :
        (Mapped(p) /\ OneQuestion(p)) =>
            LET q == req[p].payload.form.questions[1]
                L == MarkersIn(q.label)
                T == MarkersIn(q.title)
            IN  /\ (L # {} /\ \A t \in T : Earliest(L) <= t) => Filled(p) = {Earliest(L)}
                /\ (T # {} /\ \A l \in L : Earliest(T) < l) => Filled(p) = {Earliest(T)}
                /\ (L = {} /\ T = {}) => Filled(p) = {}

\* a label holding 'Purpose & Joy' under a title holding 'Introduce Yourself'
\* was classified as intro
C14_Witness ==
    \E p \in Workers :
        /\ Mapped(p) /\ OneQuestion(p)
        /\ req[p].payload.form.questions[1].label = <<"Purpose & Joy">>
        /\ req[p].payload.form.questions[1].title = <<"Introduce Yourself">>
        /\ req[p].sheet_data[1].link["intro"] = "u1"
        /\ req[p].sheet_data[1].link["purpose"] = ""

\* the categories answer k of the contact is filed under: those of the
\* classified questions of the form that carry its question_id
TargetOf(p, k) ==
    LET a == req[p].payload.contact.answers[k]
        qs == req[p].payload.form.questions
    IN  {QuestionType(qs[i]) : i \in {j \in 1..Len(qs) : qs[j].question_id = a.question_id}}
        \ {NoneId}

\* the link of answer k: its own share_url, or that of its question
LinkOf(p, k) ==
    LET a == req[p].payload.contact.answers[k]
        qs == req[p].payload.form.questions
    IN  IF a.share_url # None THEN a.share_url[1]
        ELSE qs[CHOOSE i \in 1..Len(qs) : qs[i].question_id = a.question_id].share_url

\* the content of answer k, by its type
ContentOf(p, k) ==
    LET a == req[p].payload.contact.answers[k]
    IN  CASE a.type \in {"video", "audio"} -> a.transcription
          [] a.type = "text" -> a.text
          [] a.type = "poll" -> a.poll_option_content
          [] OTHER -> ""

AnswersOf(p, c) ==
    {k \in 1..Len(req[p].payload.contact.answers) : c \in TargetOf(p, k)}

Latest(A) == CHOOSE k \in A : \A j \in A : j <= k

CategorySet == {Categories[i] : i \in 1..Len(Categories)}

\* C15: when several answers map to one category, its link and content cells
\* are both those of the last of these answers in payload order.
C15_LastAnswerWins ==
    \A p \in Workers :
        Mapped(p) =>
            \A c \in CategorySet :
                AnswersOf(p, c) # {} =>
                    /\ req[p].sheet_data[1].link[c] = LinkOf(p, Latest(AnswersOf(p, c)))
                    /\ req[p].sheet_data[1].content[c] =
                           ContentOf(p, Latest(AnswersOf(p, c)))

\* two answers filed under intro through two question ids, the later one
\* without text: the row holds the later link and the empty content
C15_Witness ==
    \E p \in Workers :
        /\ Mapped(p)
        /\ Len(req[p].payload.contact.answers) = 2
        /\ req[p].payload.contact.answers[1].question_id = "q1"
        /\ req[p].payload.contact.answers[1].type = "text"
        /\ req[p].payload.contact.answers[2].question_id = "q2"
        /\ req[p].payload.contact.answers[2].type = "other"
        /\ TargetOf(p, 1) = {"intro"} /\ TargetOf(p, 2) = {"intro"}
        /\ req[p].sheet_data[1].link["intro"] \in {"u2", "form-url-q2"}
        /\ req[p].sheet_data[1].content["intro"] = ""

RemoveAt(seq, k) == SubSeq(seq, 1, k - 1) \o SubSeq(seq, k + 1, Len(seq))

HookWritten(p) == HookFinished(p) /\ req[p].processed_count = 1

\* C17: a form_response payload whose store write succeeds leaves every row
\* that was there unchanged and in place, and adds after them exactly one row
\* for the payload (preceded by the header row when the write created the
\* worksheet).
C17_AppendOnly ==
    \A p \in Workers :
        HookWritten(p) =>
            LET before == req[p].va_before.rows
                row == RowData(req[p].sheet_data[1])
                n == Len(before)
            IN  /\ Len(vaSheet.rows) > n
                /\ SubSeq(vaSheet.rows, 1, n) = before
                /\ \/ SubSeq(vaSheet.rows, n + 1, Len(vaSheet.rows)) = <<row>>
                   \/ /\ ~req[p].va_before.exists
                      /\ SubSeq(vaSheet.rows, n + 1, Len(vaSheet.rows)) = <<VA_HEADERS, row>>

\* the second successful submission of one contact: two equal rows after the
\* header
C17_Witness ==
    \E p \in Workers :
        /\ HookWritten(p)
        /\ Len(vaSheet.rows) = 3
        /\ vaSheet.rows[1] = VA_HEADERS
        /\ vaSheet.rows[2] = vaSheet.rows[3]
        /\ vaSheet.rows[3] = RowData(req[p].sheet_data[1])

\* the position of a column, by the name in the header row
Column(name) == CHOOSE i \in 1..Len(VA_HEADERS) : VA_HEADERS[i] = name

\* the columns the pipeline fills
MappedColumns ==
    {Column("Name"), Column("DATE"), Column("EMAIL"), Column("LOCATION")}
    \cup {Column("[link] " \o Marker[c]) : c \in CategorySet}
    \cup {Column("[text] " \o Marker[c]) : c \in CategorySet}

Terminals == {".", "!", "?"}

RECURSIVE WordsOf(_, _)
\* the words of a text: its maximal runs of characters other than the space
WordsOf(text, word) ==
    IF text = <<>> THEN (IF word = <<>> THEN <<>> ELSE <<word>>)
    ELSE IF Head(text) = " "
    THEN (IF word = <<>> THEN <<>> ELSE <<word>>) \o WordsOf(Tail(text), <<>>)
    ELSE WordsOf(Tail(text), Append(word, Head(text)))

Capital(c) == IF c = "a" THEN "A" ELSE c

\* word i of the expected text: capitalised when it opens a sentence, and
\* closed with a '.' when it is the last word and ends in no terminal
ExpectedWord(words, i) ==
    LET w == words[i]
        opens == i = 1 \/ words[i - 1][Len(words[i - 1])] \in Terminals
        c == IF opens THEN <<Capital(w[1])>> \o Tail(w) ELSE w
    IN  IF i = Len(words) /\ w[Len(w)] \notin Terminals THEN c \o <<".">> ELSE c

RECURSIVE JoinWords(_, _)
JoinWords(words, i) ==
    IF i > Len(words) THEN <<>>
    ELSE IF i = Len(words) THEN ExpectedWord(words, i)
    ELSE ExpectedWord(words, i) \o <<" ">> \o JoinWords(words, i + 1)

TextDone(p) == req[p].kind = "text" /\ req[p].pc = "text_done" /\ req[p].normalized

\* C19: what post_process_text returns is the words of its input joined by
\* single spaces, where a sentence ends after '.', '!' or '?' before a space:
\* the first character of each sentence is upper-cased, nothing else changes,
\* and a '.' is added exactly where a sentence ends in no terminal; an empty
\* or blank input gives the empty text.
C19_Normalized ==
    \A p \in Workers :
        TextDone(p) =>
            /\ req[p].processed = JoinWords(WordsOf(req[p].raw[1], <<>>), 1)
            /\ (\A i \in 1..Len(req[p].raw[1]) : req[p].raw[1][i] = " ") =>
                   req[p].processed = <<>>

\* 'a. aB' has become 'A. AB.'
C19_Witness ==
    \E p \in Workers :
        /\ TextDone(p)
        /\ req[p].raw[1] = <<"a", ".", " ", "a", "B">>
        /\ req[p].processed = <<"A", ".", " ", "A", "B", ".">>

\* C20: no exception escapes post_process_text, so a request whose
\* transcription succeeded never fails in the normalisation step.
C20_NormalizerNeverFails ==
    \A p \in Workers :
        (Finished(p) /\ req[p].raw # None) => req[p].normalized

(***************************************************************************)
(* Order of the steps, the header row and the counters.                    *)
(***************************************************************************)
\* C23: in a /transcribe run the store upsert comes before the local
\* snapshot: when the snapshot has been written and the store is configured,
\* the store step of that request has already finished.
C23_StoreBeforeBackup ==
    \A p \in Workers :
        (req[p].kind = "transcribe" /\ req[p].backup_written /\ SheetConfigured) =>
            req[p].sheet_status \in {"success", "failed", "error"}

\* C24: once row 1 of the worksheet holds the header, no step changes a
\* cell of row 1, whatever file name the client sent.
C24_HeaderRowUnchanged ==
    [][(sheet.rows # <<>> /\ sheet.rows[1] = HEADERS)
          => (sheet'.rows # <<>> /\ sheet'.rows[1] = HEADERS)]_vars

\* C26: a successful webhook write into a worksheet that was absent or had
\* no rows leaves the header in row 1 and the data row after it.
C26_HeaderBeforeData ==
    \A p \in Workers :
        (HookWritten(p) /\ req[p].va_before.rows = <<>>) =>
            /\ Len(vaSheet.rows) >= 2
            /\ vaSheet.rows[1] = VA_HEADERS
            /\ vaSheet.rows[2] = RowData(req[p].sheet_data[1])

\* process_videoask_payload returned its counters (nothing was raised)
HookReturned(p) == HookFinished(p) /\ req[p].status = 200

\* the store write of the request was made and returned True
HookStoreSucceeded(p) ==
    /\ req[p].mapped /\ ~req[p].store_failed
    /\ vaSheet.rows # <<>>
    /\ vaSheet.rows[Len(vaSheet.rows)] = RowData(req[p].sheet_data[1])

\* C29: when process_videoask_payload returns, exactly one counter is 1:
\* processed iff the store write succeeded, errors iff the mapping or the
\* store write failed, skipped iff the event type is not form_response; and
\* this holds whether or not the local copy could be saved.
C29_ExactlyOneCounter ==
    \A p \in Workers :
        HookReturned(p) =>
            LET r == req[p]
                accepted == r.payload.event_type = "form_response"
            IN  /\ r.processed_count + r.skipped + r.errors = 1
                /\ {r.processed_count, r.skipped, r.errors} \subseteq {0, 1}
                /\ (r.processed_count = 1) <=> HookStoreSucceeded(p)
                /\ (r.errors = 1) <=> (accepted /\ (~r.mapped \/ r.store_failed))
                /\ (r.skipped = 1) <=> ~accepted

\* a payload that was written to the store while its local copy failed
C29_Witness ==
    \E p \in Workers :
        /\ HookReturned(p)
        /\ req[p].local_copy = "failed"
        /\ req[p].processed_count = 1
        /\ req[p].skipped = 0 /\ req[p].errors = 0

(***************************************************************************)
(* Two requests at a time, as the threads of the server run them, on a     *)
(* configured store whose worksheet holds one transcript.                  *)
(***************************************************************************)
InitConcurrent ==
    /\ variant = "app"
    /\ envSheetId = "sheet1"
    /\ envVideoaskId = NoneId
    /\ whisper_model_instance = "None"
    /\ gspread_client_instance = "None"
    /\ sheet = [exists |-> TRUE, rows |-> <<HEADERS, InitRow>>]
    /\ vaSheet = NoSheet
    /\ clock = 1
    /\ uploads = {}
    /\ served = 0
    /\ req = [p \in Workers |-> IdleReq]
    /\ lastWrite = [n \in FileNames |-> None]
    /\ writeFailed = FALSE

ConcurrentStep(p) ==
    \/ ReceiveValid(p)
    \/ DecodeAndSave(p)
    \/ AsrStart(p)
    \/ AsrLoad(p)
    \/ AsrRun(p)
    \/ Normalize(p)
    \/ Backup(p)
    \/ WsEnter(p)
    \/ GsCheck(p)
    \/ GsConstruct(p)
    \/ GsTest(p)
    \/ WsOpen(p)
    \/ WsWorksheet(p)
    \/ WsValues(p)
    \/ WsScan(p)
    \/ WsUpdateTimestamp(p)
    \/ WsUpdateText(p)
    \/ WsAppend(p)
    \/ Finally(p)
    \/ Done(p)

NextConcurrent == \E p \in Workers : ConcurrentStep(p)

SpecConcurrent == InitConcurrent /\ [][NextConcurrent]_vars

(***************************************************************************)
(* Properties of concurrent requests.                                      *)
(***************************************************************************)
\* the store write of the request returned True
WriteSucceeded(p) ==
    /\ req[p].kind = "transcribe" /\ req[p].pc \in {"finally", "done"}
    /\ req[p].sheet_status = "success"

\* the write found no row for its file name and appended one
Appended(p) == WriteSucceeded(p) /\ req[p].found_row_index = 0

\* the write found a row for its file name and updated it
Updated(p) == WriteSucceeded(p) /\ req[p].found_row_index # 0

\* C21: two concurrent upserts of one file name that is not in the
\* worksheet can both find no match and both append: whenever both did, the
\* worksheet holds a row of each of them for that file name.
C21_BothAppend ==
    \A p, q \in Workers :
        (p # q /\ Appended(p) /\ Appended(q) /\ req[p].file_name = req[q].file_name) =>
            \E i, j \in RowsOf(req[p].file_name) :
                /\ i # j
                /\ sheet.rows[i] = <<req[p].timestamp, req[p].file_name, req[p].processed>>
                /\ sheet.rows[j] = <<req[q].timestamp, req[q].file_name, req[q].processed>>

\* both requests appended: two rows for a file name that had none
C21_Witness ==
    \E p, q \in Workers :
        /\ p # q /\ Appended(p) /\ Appended(q)
        /\ req[p].file_name = <<>> /\ req[q].file_name = <<>>
        /\ Cardinality(RowsOf(<<>>)) = 2

\* C22: under any interleaving, the model and the store client are each
\* constructed only while no instance exists; once one exists, no request
\* constructs another.
C22_SingleInitialization ==
    [][\A p \in Workers :
          /\ (~req[p].model_constructed /\ req'[p].model_constructed)
                => whisper_model_instance = "None"
          /\ (~req[p].client_constructed /\ req'[p].client_constructed)
                => gspread_client_instance = "None"]_vars

\* C28: when two concurrent upserts of one file name that is in the
\* worksheet both succeed, the row holds the timestamp and the text of one
\* and the same request.
C28_NoMixedRow ==
    \A p, q \in Workers :
        (p # q /\ Updated(p) /\ Updated(q) /\ req[p].file_name = req[q].file_name) =>
            LET row == sheet.rows[req[p].found_row_index]
            IN  <<row[1], row[3]>> \in {<<req[p].timestamp, req[p].processed>>,
                                       <<req[q].timestamp, req[q].processed>>}

(***************************************************************************)
(* Concurrent store writes: each request is taken in one step through the  *)
(* part of handle_transcribe that precedes the call of                     *)
(* write_to_google_sheet (decode, transcription, normalisation and         *)
(* snapshot all succeeding), and then step by step through the write, up   *)
(* to the response the handler builds from what the write returned.        *)
(***************************************************************************)
\* handle_transcribe from the request to the call of write_to_google_sheet,
\* on the path where none of the earlier steps fails
ReachStore(p) ==
    /\ req[p].pc = "idle"
    /\ served < MaxRequests
    /\ served' = served + 1
    /\ whisper_model_instance' = "model"
    /\ \E name \in {CleanName, <<>>}, raw \in RawTexts :
          LET temp == TempName(served + 1, SafeName(name))
          IN  /\ uploads' = uploads \cup {temp}
              /\ Set(p, [IdleReq EXCEPT
                            !.kind = "transcribe", !.pc = "ws_enter",
                            !.has_fields = TRUE,
                            !.file_name = name, !.file_data = <<"A", "A", "A", "A">>,
                            !.safe = SafeName(name), !.temp = temp,
                            !.decoded = "ok", !.temp_created = TRUE,
                            !.raw = Some(Strip(raw)),
                            !.model_constructed = (whisper_model_instance = "None"),
                            !.processed = post_process_text(Strip(raw)),
                            !.normalized = TRUE, !.backup_written = TRUE,
                            !.sheet_status = "not_attempted"])
    /\ UNCHANGED <<config, gspread_client_instance, sheet, vaSheet, clock,
                   lastWrite, writeFailed>>

UpsertStep(p) ==
    \/ ReachStore(p)
    \/ WsEnter(p)
    \/ GsCheck(p)
    \/ GsConstruct(p)
    \/ GsTest(p)
    \/ WsOpen(p)
    \/ WsWorksheet(p)
    \/ WsValues(p)
    \/ WsScan(p)
    \/ WsUpdateTimestamp(p)
    \/ WsUpdateText(p)
    \/ WsAppend(p)

NextUpsert == \E p \in Workers : UpsertStep(p)

SpecUpsert == InitConcurrent /\ [][NextUpsert]_vars

(***************************************************************************)
(* The transcript pipeline, one request at a time, on worksheets that may  *)
(* hold several rows for one file name.                                    *)
(***************************************************************************)
DupRow == <<"0", CleanName, <<"D", "u", "p", ".">>>>

OtherRow == <<"0", <<"b", ".", "m">>, <<"O", "l", "d", ".">>>>

InitDupSheets ==
    InitSheets \cup
    { [exists |-> TRUE, rows |-> <<HEADERS, InitRow, DupRow>>],
      [exists |-> TRUE, rows |-> <<HEADERS, OtherRow, InitRow, DupRow>>] }

InitDup ==
    /\ variant = "app"
    /\ envSheetId = "sheet1"
    /\ envVideoaskId = NoneId
    /\ whisper_model_instance = "None"
    /\ gspread_client_instance = "None"
    /\ sheet \in InitDupSheets
    /\ vaSheet = NoSheet
    /\ clock = 1
    /\ uploads = {}
    /\ served = 0
    /\ req = [p \in Workers |-> IdleReq]
    /\ lastWrite = [n \in FileNames |-> None]
    /\ writeFailed = FALSE

SpecDup == InitDup /\ [][Next]_vars

(***************************************************************************)
(* The effect of one store write on the worksheet.                         *)
(***************************************************************************)
\* the rows of the key column of rows that hold key
Matches(rows, key) == {i \in 1..Len(rows) : rows[i][2] = key}

Topmost(rows, key) == CHOOSE i \in Matches(rows, key) : \A j \in Matches(rows, key) : i <= j

DataRows(ws) == IF ws.rows = <<>> THEN <<>> ELSE Tail(ws.rows)

\* C27: a write_to_google_sheet call that returned False leaves every data
\* row of the worksheet as it was before the call.
C27_FailedWriteChangesNothing ==
    \A p \in Workers :
        (req[p].kind = "transcribe" /\ req[p].pc \in {"finally", "done"}
            /\ req[p].store_failed) =>
            DataRows(sheet) = DataRows(req[p].ws_before)

\* C30: after get_gspread_client returned None to a request, no client is
\* cached.
C30_NoClientAfterNone ==
    \A p \in Workers :
        req[p].client_returned = "None" => gspread_client_instance = "None"

====
